---- MODULE Spec2Model ----
(***************************************************************************)
(* Model of the Windows plugin-registration shim of                        *)
(* flutter_surrealdb_engine:                                               *)
(*                                                                         *)
(*   void FlutterSurrealdbEnginePluginCApiRegisterWithRegistrar(           *)
(*       FlutterDesktopPluginRegistrarRef registrar) {                     *)
(*     flutter_surrealdb_engine::FlutterSurrealdbEnginePlugin::            *)
(*       RegisterWithRegistrar(                                            *)
(*         flutter::PluginRegistrarManager::GetInstance()                  *)
(*           ->GetRegistrar<flutter::PluginRegistrarWindows>(registrar));  *)
(*   }                                                                     *)
(*                                                                         *)
(* The shim is one thread of control.  Its body is three nested calls:     *)
(* GetInstance(), GetRegistrar(registrar) on the result, and               *)
(* RegisterWithRegistrar on the result of that.  Every call is split into  *)
(* the shim's step that makes the call and the callee's step that returns  *)
(* (or throws, or crashes, or never happens), so that order, argument      *)
(* forwarding and termination are observable.                              *)
(***************************************************************************)
EXTENDS Integers, Sequences, FiniteSets

(* ---------------- bounds of the model ---------------- *)

\* number of times the host loader invokes the entry point
MaxCalls == 3
\* valid registrar handles are 1..MaxHandle
MaxHandle == 2
\* asynchronous jobs the plugin may have outstanding
MaxAsync == 2

(* ---------------- values ---------------- *)

\* nullptr, both as a FlutterDesktopPluginRegistrarRef and as a typed registrar
Null == 0
\* content of a parameter/temporary slot of a frame that does not exist
Unset == 0 - 1
\* address of the PluginRegistrarManager singleton
ManagerPtr == 9
\* typed registrars (PluginRegistrarWindows*) live at TypedBase + handle
TypedBase == 10

\* a non-null handle that does not designate a live registrar
Dangling == MaxHandle + 1
ValidHandles == 1..MaxHandle
Handles == {Null} \cup ValidHandles \cup {Dangling}
Valid(h) == h \in ValidHandles

\* the PluginRegistrarWindows wrapper the manager keeps for handle h
TypedOf(h) == TypedBase + h

Ptrs == Unset..(TypedBase + Dangling)

\* the shim's activation record: parameter `registrar` and the two temporaries
NoFrame == [registrar |-> Unset, manager |-> Unset, typed |-> Unset]
NewFrame(h) == [registrar |-> h, manager |-> Unset, typed |-> Unset]

Call(o, v) == [op |-> o, kind |-> "call", val |-> v]
Ret(o, v) == [op |-> o, kind |-> "ret", val |-> v]
Throw(o) == [op |-> o, kind |-> "throw", val |-> Unset]

VARIABLES
  pc,             \* position of the shim's thread
  frame,          \* the shim's activation record (NoFrame when not active)
  callArg,        \* argument of the call in flight
  retVal,         \* value returned by the last callee
  exc,            \* exception in flight ("none" when there is none)
  outcome,        \* what the host loader observed from the last invocation
  hostArg,        \* the handle the host passed to the last invocation
  calls,          \* invocations of the entry point so far
  trace,          \* calls/returns of the current invocation, in order
  raised,         \* failure raised by a callee during the current invocation
  managerCreated, \* PluginRegistrarManager singleton exists
  registrars,     \* handles for which the manager holds a wrapper
  plugins,        \* plugins[t]: plugin instances added to typed registrar t
  asyncPending,   \* asynchronous jobs started by the plugin, not yet done
  invoked,        \* invoked[h]: invocations of the entry point with handle h
  lookupCount,    \* lookupCount[h]: GetRegistrar calls received for handle h
  registerCalls,  \* registerCalls[t]: RegisterWithRegistrar calls received with t
  resolved,       \* resolved[h]: GetRegistrar calls for handle h that returned
  delegated       \* delegated[h]: registration calls received during invocations with h

vars == <<pc, frame, callArg, retVal, exc, outcome, hostArg, calls, trace,
          raised, managerCreated, registrars, plugins, asyncPending,
          invoked, lookupCount, registerCalls, resolved, delegated>>

shimVars == <<pc, frame, callArg, retVal, exc, outcome, trace>>
hostVars == <<managerCreated, registrars, plugins, asyncPending>>
countVars == <<invoked, lookupCount, registerCalls, resolved, delegated>>

Init ==
  /\ pc = "idle"
  /\ frame = NoFrame
  /\ callArg = Unset
  /\ retVal = Unset
  /\ exc = "none"
  /\ outcome = "none"
  /\ hostArg = Unset
  /\ calls = 0
  /\ trace = <<>>
  /\ raised = "none"
  /\ managerCreated = FALSE
  /\ registrars = {}
  /\ plugins = [t \in Ptrs |-> 0]
  /\ asyncPending = 0
  /\ invoked = [h \in Ptrs |-> 0]
  /\ lookupCount = [h \in Ptrs |-> 0]
  /\ registerCalls = [t \in Ptrs |-> 0]
  /\ resolved = [h \in Ptrs |-> 0]
  /\ delegated = [h \in Ptrs |-> 0]

(* ---------------- the host loader ---------------- *)

\* the host loader calls the exported entry point with handle h
HostInvoke(h) ==
  /\ pc = "idle"
  /\ calls < MaxCalls
  /\ pc' = "entry"
  /\ frame' = NewFrame(h)
  /\ hostArg' = h
  /\ calls' = calls + 1
  /\ invoked' = [invoked EXCEPT ![h] = @ + 1]
  /\ trace' = <<>>
  /\ raised' = "none"
  /\ outcome' = "none"
  /\ UNCHANGED <<callArg, retVal, exc, hostVars, lookupCount, registerCalls,
                 resolved, delegated>>

(* ---------------- the shim ---------------- *)

\* variant with a once-only guard: a handle seen before is not registered again
ShimCallGetInstance_Once ==
  /\ pc = "entry"
  /\ IF invoked[frame.registrar] > 1
       THEN /\ pc' = "idle"
            /\ frame' = NoFrame
            /\ outcome' = "ok"
            /\ UNCHANGED <<callArg, trace>>
       ELSE /\ pc' = "inGetInstance"
            /\ callArg' = Unset
            /\ trace' = Append(trace, Call("GetInstance", Unset))
            /\ UNCHANGED <<frame, outcome>>
  /\ UNCHANGED <<retVal, exc, hostArg, calls, raised, hostVars, countVars>>

\* flutter::PluginRegistrarManager::GetInstance() is called first
ShimCallGetInstance ==
  /\ pc = "entry"
  /\ pc' = "inGetInstance"
  /\ callArg' = Unset
  /\ trace' = Append(trace, Call("GetInstance", Unset))
  /\ UNCHANGED <<frame, retVal, exc, outcome, hostArg, calls, raised,
                 hostVars, countVars>>

\* variant that validates the handle: a null handle returns early
ShimCallGetRegistrar_NullCheck ==
  /\ pc = "gotInstance"
  /\ IF frame.registrar = Null
       THEN /\ pc' = "idle"
            /\ frame' = NoFrame
            /\ outcome' = "ok"
            /\ UNCHANGED <<callArg, trace>>
       ELSE /\ pc' = "inGetRegistrar"
            /\ frame' = [frame EXCEPT !.manager = retVal]
            /\ callArg' = frame.registrar
            /\ trace' = Append(trace, Call("GetRegistrar", frame.registrar))
            /\ UNCHANGED outcome
  /\ UNCHANGED <<retVal, exc, hostArg, calls, raised, hostVars, countVars>>

\* ->GetRegistrar<PluginRegistrarWindows>(registrar) on the returned manager
ShimCallGetRegistrar ==
  /\ pc = "gotInstance"
  /\ pc' = "inGetRegistrar"
  /\ frame' = [frame EXCEPT !.manager = retVal]
  /\ callArg' = frame.registrar
  /\ trace' = Append(trace, Call("GetRegistrar", frame.registrar))
  /\ UNCHANGED <<retVal, exc, outcome, hostArg, calls, raised,
                 hostVars, countVars>>

\* variant that drops the delegated call
ShimCallRegister_Skipped ==
  /\ pc = "gotRegistrar"
  /\ pc' = "registerReturned"
  /\ frame' = [frame EXCEPT !.typed = retVal]
  /\ UNCHANGED <<callArg, trace, retVal, exc, outcome, hostArg, calls, raised,
                 hostVars, countVars>>

\* variant that passes the raw handle instead of the resolved registrar
ShimCallRegister_RawHandle ==
  /\ pc = "gotRegistrar"
  /\ pc' = "inRegister"
  /\ frame' = [frame EXCEPT !.typed = retVal]
  /\ callArg' = frame.registrar
  /\ trace' = Append(trace, Call("Register", frame.registrar))
  /\ UNCHANGED <<retVal, exc, outcome, hostArg, calls, raised,
                 hostVars, countVars>>

\* variant that evaluates the lookup expression a second time for the argument
ShimCallRegister_LookupAgain ==
  /\ pc = "gotRegistrar"
  /\ pc' = "inRegister"
  /\ frame' = [frame EXCEPT !.typed = retVal]
  /\ callArg' = retVal
  /\ trace' = trace \o <<Call("GetInstance", Unset),
                         Call("GetRegistrar", frame.registrar),
                         Call("Register", retVal)>>
  /\ UNCHANGED <<retVal, exc, outcome, hostArg, calls, raised,
                 hostVars, countVars>>

\* FlutterSurrealdbEnginePlugin::RegisterWithRegistrar(<result of the lookup>)
ShimCallRegister ==
  /\ pc = "gotRegistrar"
  /\ pc' = "inRegister"
  /\ frame' = [frame EXCEPT !.typed = retVal]
  /\ callArg' = retVal
  /\ trace' = Append(trace, Call("Register", retVal))
  /\ UNCHANGED <<retVal, exc, outcome, hostArg, calls, raised,
                 hostVars, countVars>>

\* variant that keeps the handle and the resolved registrar after returning
ShimReturn_Retain ==
  /\ pc = "registerReturned"
  /\ pc' = "idle"
  /\ outcome' = "ok"
  /\ UNCHANGED <<frame, callArg, retVal, exc, hostArg, calls, trace, raised,
                 hostVars, countVars>>

\* variant that waits for the plugin's asynchronous work before returning
ShimReturn_AwaitAsync ==
  /\ pc = "registerReturned"
  /\ asyncPending = 0
  /\ pc' = "idle"
  /\ frame' = NoFrame
  /\ outcome' = "ok"
  /\ UNCHANGED <<callArg, retVal, exc, hostArg, calls, trace, raised,
                 hostVars, countVars>>

\* the closing brace: the frame is popped and control is back in the host
ShimReturn ==
  /\ pc = "registerReturned"
  /\ pc' = "idle"
  /\ frame' = NoFrame
  /\ outcome' = "ok"
  /\ UNCHANGED <<callArg, retVal, exc, hostArg, calls, trace, raised,
                 hostVars, countVars>>

\* the body has no try block: an exception of a callee leaves the shim
ShimUnwind ==
  /\ pc = "unwinding"
  /\ pc' = "idle"
  /\ frame' = NoFrame
  /\ outcome' = exc
  /\ exc' = "none"
  /\ UNCHANGED <<callArg, retVal, hostArg, calls, trace, raised,
                 hostVars, countVars>>

ShimStep ==
  \/ ShimCallGetInstance
  \/ ShimCallGetRegistrar
  \/ ShimCallRegister
  \/ ShimReturn
  \/ ShimUnwind

(* ---------------- the registrar manager (host toolkit) ---------------- *)

\* GetInstance() returns the singleton, creating it on first use
GetInstanceReturn ==
  /\ pc = "inGetInstance"
  /\ pc' = "gotInstance"
  /\ managerCreated' = TRUE
  /\ retVal' = ManagerPtr
  /\ trace' = Append(trace, Ret("GetInstance", ManagerPtr))
  /\ UNCHANGED <<frame, callArg, exc, outcome, hostArg, calls, raised,
                 registrars, plugins, asyncPending, countVars>>

\* what GetRegistrar may hand back for handle h: the wrapper of a valid
\* handle; anything the toolkit produces for a null or dangling one
LookupResults(h) == IF Valid(h) THEN {TypedOf(h)} ELSE {TypedOf(h), Null}

\* GetRegistrar receives the call: the manager counts it
GetRegistrarReturn ==
  /\ pc = "inGetRegistrar"
  /\ \E t \in LookupResults(callArg) :
       /\ retVal' = t
       /\ trace' = Append(trace, Ret("GetRegistrar", t))
  /\ pc' = "gotRegistrar"
  /\ registrars' = registrars \cup {callArg}
  /\ lookupCount' = [lookupCount EXCEPT ![callArg] = @ + 1]
  /\ resolved' = [resolved EXCEPT ![callArg] = @ + 1]
  /\ UNCHANGED <<frame, callArg, exc, outcome, hostArg, calls, raised,
                 managerCreated, plugins, asyncPending, invoked,
                 registerCalls, delegated>>

\* a lookup of a handle that is not valid may fail with an exception
GetRegistrarThrow ==
  /\ pc = "inGetRegistrar"
  /\ ~Valid(callArg)
  /\ pc' = "unwinding"
  /\ exc' = "lookup_failed"
  /\ raised' = "lookup_failed"
  /\ lookupCount' = [lookupCount EXCEPT ![callArg] = @ + 1]
  /\ trace' = Append(trace, Throw("GetRegistrar"))
  /\ UNCHANGED <<frame, callArg, retVal, outcome, hostArg, calls,
                 hostVars, invoked, registerCalls, resolved, delegated>>

\* ... or take the process down (dereference of a null or dangling handle)
GetRegistrarCrash ==
  /\ pc = "inGetRegistrar"
  /\ ~Valid(callArg)
  /\ pc' = "crashed"
  /\ raised' = "crashed"
  /\ lookupCount' = [lookupCount EXCEPT ![callArg] = @ + 1]
  /\ UNCHANGED <<frame, callArg, retVal, exc, outcome, hostArg, calls, trace,
                 hostVars, invoked, registerCalls, resolved, delegated>>

(* ---------------- the plugin ---------------- *)

\* RegisterWithRegistrar adds a plugin instance to the registrar it was
\* given, possibly starts asynchronous work, and returns
RegisterReturn ==
  /\ pc = "inRegister"
  /\ callArg # Null
  /\ pc' = "registerReturned"
  /\ plugins' = [plugins EXCEPT ![callArg] = @ + 1]
  /\ registerCalls' = [registerCalls EXCEPT ![callArg] = @ + 1]
  /\ delegated' = [delegated EXCEPT ![hostArg] = @ + 1]
  /\ \E k \in {0, 1} :
       /\ asyncPending + k <= MaxAsync
       /\ asyncPending' = asyncPending + k
  /\ retVal' = Unset
  /\ trace' = Append(trace, Ret("Register", Unset))
  /\ UNCHANGED <<frame, callArg, exc, outcome, hostArg, calls, raised,
                 managerCreated, registrars, invoked, lookupCount, resolved>>

\* a failure inside the delegated registration call
RegisterThrow ==
  /\ pc = "inRegister"
  /\ pc' = "unwinding"
  /\ exc' = "register_failed"
  /\ raised' = "register_failed"
  /\ registerCalls' = [registerCalls EXCEPT ![callArg] = @ + 1]
  /\ delegated' = [delegated EXCEPT ![hostArg] = @ + 1]
  /\ trace' = Append(trace, Throw("Register"))
  /\ UNCHANGED <<frame, callArg, retVal, outcome, hostArg, calls,
                 hostVars, invoked, lookupCount, resolved>>

\* registration against a null registrar dereferences it
RegisterCrash ==
  /\ pc = "inRegister"
  /\ callArg = Null
  /\ pc' = "crashed"
  /\ raised' = "crashed"
  /\ registerCalls' = [registerCalls EXCEPT ![callArg] = @ + 1]
  /\ delegated' = [delegated EXCEPT ![hostArg] = @ + 1]
  /\ UNCHANGED <<frame, callArg, retVal, exc, outcome, hostArg, calls, trace,
                 hostVars, invoked, lookupCount, resolved>>

\* asynchronous work started by the plugin completes on its own time
AsyncComplete ==
  /\ asyncPending > 0
  /\ asyncPending' = asyncPending - 1
  /\ UNCHANGED <<shimVars, hostArg, calls, raised, managerCreated,
                 registrars, plugins, countVars>>

Next ==
  \/ \E h \in Handles : HostInvoke(h)
  \/ ShimCallGetInstance
  \/ ShimCallGetRegistrar
  \/ ShimCallRegister
  \/ ShimReturn
  \/ ShimUnwind
  \/ GetInstanceReturn
  \/ GetRegistrarReturn
  \/ GetRegistrarThrow
  \/ GetRegistrarCrash
  \/ RegisterReturn
  \/ RegisterThrow
  \/ RegisterCrash
  \/ AsyncComplete

Spec == Init /\ [][Next]_vars

\* the shim's thread is scheduled whenever it can run; callees and
\* asynchronous work are under no obligation
FairSpec == Spec /\ WF_vars(ShimStep)

(* ---------------- observations on the current invocation ---------------- *)

IsCallOf(o, e) == e.op = o /\ e.kind = "call"
IsRetOf(o, e) == e.op = o /\ e.kind = "ret"

\* the calls the shim made during the current invocation, in order
CallsMade == SelectSeq(trace, LAMBDA e : e.kind = "call")
CallOps == [i \in 1..Len(CallsMade) |-> CallsMade[i].op]
RegisterCallsMade == SelectSeq(trace, LAMBDA e : IsCallOf("Register", e))
LookupCallsMade == SelectSeq(trace, LAMBDA e : IsCallOf("GetRegistrar", e))
LookupReturns == SelectSeq(trace, LAMBDA e : IsRetOf("GetRegistrar", e))

IsPrefix(s, t) == Len(s) <= Len(t) /\ \A i \in 1..Len(s) : s[i] = t[i]

\* the last invocation is over and control is back in the host loader
Finished == pc = "idle" /\ calls > 0
\* the shim is past the point where it calls the lookup
PastLookupCall == pc \in {"inGetRegistrar", "gotRegistrar", "inRegister",
                          "registerReturned", "unwinding", "crashed"}

(* ---------------- C1 ---------------- *)

\* C1: for a valid (non-null) handle, one invocation of the entry point makes
\* exactly one call to the plugin's RegisterWithRegistrar -- never more than
\* one while it runs, exactly one once it is over -- and the typed registrar
\* passed to it is non-null.
C1_ExactlyOneRegistration ==
  Valid(hostArg) =>
    /\ Len(RegisterCallsMade) <= 1
    /\ \A i \in 1..Len(RegisterCallsMade) : RegisterCallsMade[i].val # Null
    /\ Finished => Len(RegisterCallsMade) = 1

C1_Witness ==
  /\ Finished
  /\ Valid(hostArg)
  /\ outcome = "ok"
  /\ plugins[TypedOf(hostArg)] = 1

(* ---------------- C2 ---------------- *)

\* C2: the registrar handed to the plugin is exactly the value GetRegistrar
\* returned for the handle the entry point received; with a manager mapping
\* every valid handle to its stub, a finished invocation with a non-null
\* handle whose lookup returned has called the plugin once, with that stub
\* and nothing else.
C2_ForwardsLookupResult ==
  /\ \A i \in 1..Len(trace) :
       IsCallOf("Register", trace[i]) =>
         /\ i > 2
         /\ trace[i - 1] = Ret("GetRegistrar", trace[i].val)
         /\ trace[i - 2] = Call("GetRegistrar", hostArg)
  /\ pc = "inRegister" => callArg = retVal
  /\ (Finished /\ Valid(hostArg)) =>
       RegisterCallsMade = <<Call("Register", TypedOf(hostArg))>>
  /\ (Finished /\ hostArg # Null /\ Len(LookupReturns) = 1) =>
       RegisterCallsMade = <<Call("Register", LookupReturns[1].val)>>

C2_Witness ==
  /\ Finished
  /\ Valid(hostArg)
  /\ outcome = "ok"
  /\ registerCalls[TypedOf(hostArg)] >= 1
  /\ registerCalls[hostArg] = 0

(* ---------------- C3 ---------------- *)

\* C3: the shim retains nothing: whenever control is in the host loader the
\* shim holds neither the handle nor the resolved registrar nor the manager
\* (its activation record is gone and no exception of its own is pending),
\* whatever the invocation did to the registrar manager and the registrar.
C3_RetainsNothing ==
  pc = "idle" => (frame = NoFrame /\ exc = "none")

C3_Witness ==
  /\ Finished
  /\ outcome = "ok"
  /\ Valid(hostArg)
  /\ hostArg \in registrars
  /\ plugins[TypedOf(hostArg)] > 0
  /\ frame = NoFrame

(* ---------------- C4 ---------------- *)

\* C4: no validation and no failure mode of its own: for any handle, null and
\* dangling included, the lookup is called with the handle unchanged and the
\* registration is called with the lookup's result unchanged; a finished
\* invocation reports failure exactly when a callee raised one, and reports
\* that very failure.
C4_NoValidationNoNewFailure ==
  /\ PastLookupCall => LookupCallsMade = <<Call("GetRegistrar", hostArg)>>
  /\ Finished => LookupCallsMade = <<Call("GetRegistrar", hostArg)>>
  /\ \A i \in 1..Len(trace) :
       IsRetOf("GetRegistrar", trace[i]) =>
         /\ i < Len(trace) => trace[i + 1] = Call("Register", trace[i].val)
         /\ i = Len(trace) => pc = "gotRegistrar"
  /\ Finished => outcome = (IF raised = "none" THEN "ok" ELSE raised)

C4_Witness ==
  /\ Finished
  /\ hostArg = Null
  /\ outcome = "register_failed"
  /\ lookupCount[Null] > 0

(* ---------------- C5 ---------------- *)

\* C5: within one invocation the shim makes one registrar-manager lookup
\* (GetInstance, then GetRegistrar on it) and one registration call, in that
\* order and nothing else; the registration call starts only after the
\* lookup has returned.
C5_OneLookupThenOneRegistration ==
  /\ IsPrefix(CallOps, <<"GetInstance", "GetRegistrar", "Register">>)
  /\ \A i \in 1..Len(trace) :
       IsCallOf("Register", trace[i]) =>
         \E j \in 1..(i - 1) : IsRetOf("GetRegistrar", trace[j])
  /\ \A i \in 1..Len(trace) :
       IsCallOf("GetRegistrar", trace[i]) =>
         \E j \in 1..(i - 1) : IsRetOf("GetInstance", trace[j])
  /\ (Finished /\ outcome = "ok") =>
       CallOps = <<"GetInstance", "GetRegistrar", "Register">>

C5_Witness ==
  /\ Finished
  /\ outcome = "ok"
  /\ Len(LookupCallsMade) = 1
  /\ Len(RegisterCallsMade) = 1

(* ---------------- C6 ---------------- *)

\* a normal return happens only after the delegated call has returned: the
\* last thing that happened in the invocation is the registration returning
ReturnsAfterDelegate ==
  (Finished /\ outcome = "ok") =>
    (Len(trace) > 0 /\ trace[Len(trace)] = Ret("Register", Unset))

\* C6: the entry point is synchronous and one-shot: it returns normally only
\* after the delegated registration call has returned, and once the lookup
\* and the registration call have both returned it does return, whether or
\* not asynchronous work started by the plugin is still outstanding.
C6_SynchronousOneShot ==
  /\ []ReturnsAfterDelegate
  /\ (pc = "registerReturned") ~> (pc = "idle" /\ outcome = "ok")

C6_Witness ==
  /\ Finished
  /\ outcome = "ok"
  /\ asyncPending > 0

(* ---------------- C7 ---------------- *)

\* C7: no once-only guard: when control is back in the host after N
\* invocations with a handle, the manager has received N lookups for it and
\* the plugin has received one registration call for each of those lookups
\* that returned -- N of them, all with the handle's registrar, when the
\* handle is valid.
C7_NotIdempotent ==
  pc = "idle" =>
    \A h \in Handles :
      /\ lookupCount[h] = invoked[h]
      /\ delegated[h] = resolved[h]
      /\ Valid(h) => (resolved[h] = invoked[h] /\ registerCalls[TypedOf(h)] = invoked[h])

C7_Witness ==
  /\ pc = "idle"
  /\ \E h \in ValidHandles :
       /\ invoked[h] = MaxCalls
       /\ lookupCount[h] = MaxCalls
       /\ registerCalls[TypedOf(h)] = MaxCalls
====
